---------------------------- MODULE Spec2Model ----------------------------
(***************************************************************************)
(* Model of the beacon SSE ingestion service                               *)
(* (src/beacon-sse-client-event/main.py and sse_client.py).                *)
(*                                                                         *)
(* One daemon thread per configured source runs make_sse_loop, which       *)
(* starts a heartbeat thread, builds an SSEClient and calls getSSEStream   *)
(* in an endless loop.  getSSEStream reads the event stream line by line   *)
(* and starts one daemon thread per parsed event; that thread runs         *)
(* post_event.  The main thread sleeps until KeyboardInterrupt and then    *)
(* falls off the end of the module, which ends every daemon thread.        *)
(*                                                                         *)
(* post_event encodes the payload with json_event_to_line_protocol, which  *)
(* flattens the JSON document with flatten_json, and posts the line to the *)
(* sink once.  The encoder is a pure function; EncoderSpec applies it to   *)
(* a bounded set of documents, CallsSpec calls it several times in a row.  *)
(*                                                                         *)
(* SSEClient.stop() is a public method that main.py never calls; the       *)
(* action stop(s) models a caller of that method.                          *)
(***************************************************************************)
EXTENDS Naturals, Sequences, FiniteSets, TLC

\* The sources sse_configs.json can name (main.py:55, one dict each).
Sources == {"nodeA", "nodeB"}

\* Bounds on what the upstream of a source does during one run: the reads of
\* the body it answers (a line or the end of the body) and the failures it
\* causes (a status other than 200, a refused request, a read error).  The
\* budget of a run also names the answers the sink gives in it.
MaxLines == 4
MaxFaults == 2

\* The same bounds for the runs whose threads are scheduled fairly.
MaxLinesFair == 2
MaxFaultsFair == 2

\* The same bounds for the runs whose sink answers as it likes.
MaxLinesSink == 2
MaxFaultsSink == 1

\* The same bounds for the runs with two sources: the reads the healthy
\* source's upstream answers, the failures the failing source's upstream causes.
MaxLinesTwo == 2
MaxFaultsTwo == 2

\* Bounds on the payloads the encoder is applied to: the characters of a
\* string leaf, the keys on the path to a leaf, the entries of one object.
MaxStrLen == 3
MaxDepth == 3
MaxWidth == 2

\* Bound on the calls of the encoder in a run with several calls.
MaxCalls == 3

\* Event kinds the upstream names on its "event:" lines.
Kinds == {"head", "block"}

None == "None"

\* A data string json.loads raises JSONDecodeError on, and the document {}
\* as json.loads returns it (the values are laid out with flatten_json below).
NotJson == <<"invalid", <<>>>>
EmptyObject == <<"dict", <<>>>>

\* What the upstream puts on its "data:" lines.
DataStrings == {EmptyObject, NotJson}

\* The lines response.iter_lines() can yield: <<field, value>>.
\* "event" with value "" is an "event:" line whose kind strips to nothing.
Lines ==
    ({"event"} \X (Kinds \cup {""})) \cup ({"data"} \X DataStrings)
        \cup {<<"blank", "">>, <<"other", "">>}

NoLine == <<"none", "">>

\* No payload at hand; no call of json_event_to_line_protocol made yet.
NoData == <<"none", <<>>>>
Pending == <<"pending", <<>>>>

\* What requests.post can come to (main.py:167-174): status 200, another
\* status, an exception.
SinkAnswers == {"sent200", "sentNon200", "transportError"}

\* Outcomes of one post_event call (main.py:161-174).
PostOutcomes == SinkAnswers \cup {"notJson"}

VARIABLES
    exited,        \* the main thread has left the module: every daemon thread is gone
    budget,        \* per source: what its upstream does at most in this run
    pc,            \* per source: where the make_sse_loop/getSSEStream thread stands
    stop_event,    \* per source: SSEClient.stop_event
    conn,          \* per source: the streaming response is open
    event_type,    \* per source: getSSEStream's local event_type
    line,          \* per source: the line iter_lines() just yielded
    linesRead,     \* per source: reads of the body the upstream has answered so far
    failures,      \* per source: connect failures and read errors so far
    handlers,      \* per source: event threads started and not yet finished
    delivered,     \* per source: events the sink answered 200 for, in sink order
    sse_errors,    \* per source: post_event("sse_error", ...) calls made so far
    hb,            \* per source: where the heartbeat thread stands
    hbTick,        \* per source: what the stream thread was doing at the last tick
    requests,      \* per source: the post_event calls made, with their POSTs to the sink
    hb_threads,    \* per source: heartbeat threads make_sse_loop has started
    data_str,      \* the parsed payload handed to json_event_to_line_protocol
    record,        \* what json_event_to_line_protocol returned for data_str
    calls,         \* the calls of json_event_to_line_protocol that returned before
    posted,        \* the records the sink answered 200 for, by their tags and origin
    context,       \* the properties GetMetricsProcessor.transform is called with
    result         \* the FlowFileTransformResult that transform returned

vars ==
    <<exited, budget, pc, stop_event, conn, event_type, line, linesRead, failures,
      handlers, delivered, sse_errors, hb, hbTick, requests, hb_threads, data_str, record,
      calls, posted, context, result>>

\* Everything one source's threads own.
View(s) ==
    <<pc[s], stop_event[s], conn[s], event_type[s], line[s], linesRead[s], failures[s],
      handlers[s], delivered[s], sse_errors[s], hb[s], hbTick[s], requests[s],
      hb_threads[s]>>

\* The state after load_configs() with the sources cfg configured and the
\* upstream of each source s doing at most b[s].
InitWith(cfg, b) ==
    /\ exited = FALSE
    /\ budget = b
    /\ pc = [s \in Sources |-> IF s \in cfg THEN "unstarted" ELSE "absent"]
    /\ stop_event = [s \in Sources |-> FALSE]
    /\ conn = [s \in Sources |-> FALSE]
    /\ event_type = [s \in Sources |-> None]
    /\ line = [s \in Sources |-> NoLine]
    /\ linesRead = [s \in Sources |-> 0]
    /\ failures = [s \in Sources |-> 0]
    /\ handlers = [s \in Sources |-> {}]
    /\ delivered = [s \in Sources |-> <<>>]
    /\ sse_errors = [s \in Sources |-> 0]
    /\ hb = [s \in Sources |-> "unstarted"]
    /\ hbTick = [s \in Sources |-> "none"]
    /\ requests = [s \in Sources |-> {}]
    /\ hb_threads = [s \in Sources |-> 0]
    /\ posted = {}

\* No payload is put to the encoder by hand.
EncoderIdle == data_str = NoData /\ record = Pending /\ calls = <<>>

\* GetMetricsProcessor is not part of the run.
NoContext == [function_name |-> "none"]
NoResult == [relationship |-> "none"]
ProcessorIdle == context = NoContext /\ result = NoResult

\* One configured source, and a sink that answers 200.
Init ==
    /\ InitWith({"nodeA"},
                [s \in Sources |-> [lines |-> MaxLines, faults |-> MaxFaults, sink |-> {"sent200"}]])
    /\ EncoderIdle
    /\ ProcessorIdle

\* One configured source, and a sink that cannot be reached.
InitFair ==
    /\ InitWith({"nodeA"},
                [s \in Sources |->
                    [lines |-> MaxLinesFair, faults |-> MaxFaultsFair, sink |-> {"transportError"}]])
    /\ EncoderIdle
    /\ ProcessorIdle

\* One configured source, and a sink that answers as it likes.
InitSink ==
    /\ InitWith({"nodeA"},
                [s \in Sources |->
                    [lines |-> MaxLinesSink, faults |-> MaxFaultsSink, sink |-> SinkAnswers]])
    /\ EncoderIdle
    /\ ProcessorIdle

\* Two configured sources: the upstream of nodeB only fails, the upstream of
\* nodeA only answers, and the sink answers 200.  (The other way round is
\* the same run with the names swapped.)
InitTwo ==
    /\ InitWith(Sources,
                [s \in Sources |->
                    IF s = "nodeB"
                    THEN [lines |-> 0, faults |-> MaxFaultsTwo, sink |-> {"sent200"}]
                    ELSE [lines |-> MaxLinesTwo, faults |-> 0, sink |-> {"sent200"}]])
    /\ EncoderIdle
    /\ ProcessorIdle

\* The upstream of s may still answer a read / cause a failure in this run.
LineBudget(s) == linesRead[s] < budget[s].lines
FaultBudget(s) == failures[s] < budget[s].faults

Bump(f, s) == [f EXCEPT ![s] = @ + 1]

\* A test of the kind against None only: the empty string passes.
TruthyNotNone(et) == et /= None

\* event_type is truthy in Python: neither None nor the empty string.
Truthy(et) == et /= None /\ et /= ""

(***************************************************************************)
(* main.py:225-235, the main thread                                        *)
(***************************************************************************)

\* threading.Thread(target=make_sse_loop, args=(cfg,), daemon=True).start()
StartThread(s) ==
    /\ ~exited
    /\ pc[s] = "unstarted"
    /\ pc' = [pc EXCEPT ![s] = "start"]
    /\ UNCHANGED <<exited, budget, stop_event, conn, event_type, line, linesRead, failures,
                   handlers, delivered, sse_errors, hb, hbTick, requests, hb_threads,
                   data_str, record, calls, posted, context, result>>

\* KeyboardInterrupt: the handler logs and the module ends.  Every thread is a
\* daemon thread, so the interpreter exits without waiting for any of them;
\* no stop() is called and nothing is joined.
KeyboardInterrupt ==
    /\ ~exited
    /\ exited' = TRUE
    /\ UNCHANGED <<budget, pc, stop_event, conn, event_type, line, linesRead, failures,
                   handlers, delivered, sse_errors, hb, hbTick, requests, hb_threads,
                   data_str, record, calls, posted, context, result>>

(***************************************************************************)
(* JSON values, as json.loads builds them                                  *)
(***************************************************************************)

\* A value is <<type, content>>:
\*   <<"dict", entries>>   entries: a sequence of <<key, value>>, keys distinct,
\*                         in the order of the document (dicts keep it);
\*   <<"list", values>>    a sequence of values;
\*   <<"str", chars>>      a sequence of characters;
\*   <<"int", n>>          a natural number;
\*   <<"float", <<w, f>>>> the number w.f: w its whole part, f the digits of
\*                         its fraction without trailing zeros;
\*   <<"bool", b>>         True or False;
\*   <<"null", <<>>>>      None.
\* A key, and the name of a field, is a sequence of words and "_": the key
\* source_root is <<"source", "_", "root">>.
IsDict(data) == data[1] = "dict"
IsList(data) == data[1] = "list"
IsStr(data) == data[1] = "str"
IsBool(data) == data[1] = "bool"

\* The ASCII decimal digits.
DecimalDigits == {"0", "1", "2", "3", "4", "5", "6", "7", "8", "9"}

\* Characters str.isdigit() is true of and int() rejects: SUPERSCRIPT TWO
\* and the other digits that are not decimal (Unicode Numeric_Type=Digit).
OtherDigits == {"sup2"}

\* The characters of the string leaves.
Chars == {"0", "1", "x", ".", "a", "sup2"}

DigitChars == <<"0", "1", "2", "3", "4", "5", "6", "7", "8", "9">>

DigitVal(c) == (CHOOSE i \in 1..Len(DigitChars) : DigitChars[i] = c) - 1

\* s.startswith("0x")
StartsWith0x(chars) == Len(chars) >= 2 /\ chars[1] = "0" /\ chars[2] = "x"

\* s.isdigit(): not empty and every character a digit, decimal or not.
isdigit(chars) ==
    /\ chars /= <<>>
    /\ \A i \in 1..Len(chars) : chars[i] \in DecimalDigits \cup OtherDigits

\* The value of a string of decimal digits.
RECURSIVE DecimalValue(_)
DecimalValue(chars) ==
    IF chars = <<>> THEN 0
    ELSE 10 * DecimalValue(SubSeq(chars, 1, Len(chars) - 1)) + DigitVal(chars[Len(chars)])

\* int(s) returns: s is decimal digits only.  (Signs, blanks and underscores
\* are not among Chars.)  Otherwise int(s) raises ValueError.
IntParses(chars) ==
    /\ chars /= <<>>
    /\ \A i \in 1..Len(chars) : chars[i] \in DecimalDigits

\* str(n) of an int n >= 0.
RECURSIVE StrInt(_)
StrInt(n) ==
    IF n < 10 THEN <<DigitChars[n + 1]>>
    ELSE StrInt(n \div 10) \o <<DigitChars[(n % 10) + 1]>>

\* The positions of "." in a string.
Dots(chars) == {i \in 1..Len(chars) : chars[i] = "."}

\* float(s) returns: decimal digits around at most one ".", one digit at
\* least.  (Exponents, signs, inf and nan are not among Chars.)  Otherwise
\* float(s) raises ValueError.
FloatParses(chars) ==
    /\ Cardinality(Dots(chars)) <= 1
    /\ \E i \in 1..Len(chars) : chars[i] \in DecimalDigits
    /\ \A i \in 1..Len(chars) : chars[i] \in DecimalDigits \cup {"."}

\* A string of digits without its trailing zeros.
RECURSIVE StripZeros(_)
StripZeros(chars) ==
    IF chars /= <<>> /\ chars[Len(chars)] = "0"
    THEN StripZeros(SubSeq(chars, 1, Len(chars) - 1))
    ELSE chars

\* float(s) of a string float() accepts.
FloatValue(chars) ==
    LET dot == IF Dots(chars) = {} THEN Len(chars) + 1 ELSE CHOOSE i \in Dots(chars) : TRUE
    IN  <<DecimalValue(SubSeq(chars, 1, dot - 1)),
          StripZeros(SubSeq(chars, dot + 1, Len(chars)))>>

\* str(x) of a float x: the whole part, ".", the fraction ("0" if none).
StrFloat(x) == StrInt(x[1]) \o <<".">> \o (IF x[2] = <<>> THEN <<"0">> ELSE x[2])

\* str(data) of a number, a bool or None.
PyStr(data) ==
    CASE data[1] = "int" -> StrInt(data[2])
      [] data[1] = "float" -> StrFloat(data[2])
      [] data[1] = "bool" -> IF data[2] THEN <<"True">> ELSE <<"False">>
      [] data[1] = "null" -> <<"None">>

\* f'"{text}"'
Quoted(text) == <<"\"">> \o text \o <<"\"">>

(***************************************************************************)
(* main.py:66-114, IGNORED_FIELDS                                          *)
(***************************************************************************)

\* The entries of IGNORED_FIELDS that the keys of the model can spell.
IGNORED_FIELDS ==
    { <<"block">>,
      <<"block", "_", "root">>,
      <<"data", "_", "source", "_", "root">> }

(***************************************************************************)
(* main.py:117-144, flatten_json                                           *)
(***************************************************************************)

\* What flatten_json returns, <<"items", dict>>, or that it raised.
Items(f) == <<"items", f>>
ValueError == <<"ValueError", <<>>>>

\* A flattener whose items outlive the call: it starts from the fields of
\* the call before.
LeftoverItems ==
    IF calls /= <<>> /\ calls[Len(calls)][5][1] = "line"
    THEN calls[Len(calls)][5][2].fields
    ELSE [n \in {} |-> <<>>]

\* Line 118: items = {}, a new dict in every call.
NoItems == [n \in {} |-> <<>>]

\* items[prefix] = text
OneItem(prefix, text) == [n \in {prefix} |-> text]

\* items.update(more): the keys of more get its values.
update(items, more) ==
    [n \in DOMAIN items \cup DOMAIN more |-> IF n \in DOMAIN more THEN more[n] ELSE items[n]]

\* Line 121: key = f"{prefix}_{k}" if prefix else k
JoinKey(prefix, k) == IF prefix /= <<>> THEN prefix \o <<"_">> \o k ELSE k

\* A flattener that looks for ignored keys at the top level only.
IgnoredTopLevel(key) == key \in IGNORED_FIELDS /\ Len(key) = 1

\* The key of line 122 is in IGNORED_FIELDS: its whole value is skipped.
Ignored(key) == key \in IGNORED_FIELDS

\* Lines 138-139: isinstance(data, (int, float)).  bool is a subclass of int,
\* so True and False are instances too.
IsIntOrFloat(data) == data[1] \in {"int", "float", "bool"}

\* Lines 127-137, a str leaf.  int(data) is called whenever isdigit() holds
\* and raises ValueError on a digit that is not decimal.
StrLeaf(chars, prefix) ==
    CASE StartsWith0x(chars) -> Items(OneItem(prefix, Quoted(chars)))
      [] ~StartsWith0x(chars) /\ isdigit(chars) ->
             IF IntParses(chars)
             THEN Items(OneItem(prefix, StrInt(DecimalValue(chars)) \o <<"i">>))
             ELSE ValueError
      [] OTHER ->
             IF FloatParses(chars)
             THEN Items(OneItem(prefix, StrFloat(FloatValue(chars))))
             ELSE Items(OneItem(prefix, Quoted(chars)))

\* A flattener without the list branch: a list falls through to line 143.
ListLeafQuoted(values, prefix) == Items(OneItem(prefix, Quoted(<<"list">>)))

\* Lines 125-126: a list contributes nothing.
ListLeaf(values, prefix) == Items(NoItems)

\* Lines 138-143, every other leaf, in the order of the elif chain.
OtherLeaf(data, prefix) ==
    CASE IsIntOrFloat(data) -> Items(OneItem(prefix, PyStr(data)))
      [] ~IsIntOrFloat(data) /\ IsBool(data) ->
             Items(OneItem(prefix, IF data[2] THEN <<"true">> ELSE <<"false">>))
      [] OTHER -> Items(OneItem(prefix, Quoted(PyStr(data))))

RECURSIVE flatten_json(_, _)
RECURSIVE FlattenEntries(_, _, _)

\* Lines 120-124, the loop over data.items(), items so far in acc.
FlattenEntries(entries, prefix, acc) ==
    IF entries = <<>> THEN Items(acc)
    ELSE LET key == JoinKey(prefix, Head(entries)[1])
         IN  IF Ignored(key) THEN FlattenEntries(Tail(entries), prefix, acc)
             ELSE LET sub == flatten_json(Head(entries)[2], key)
                  IN  IF sub[1] = "ValueError" THEN ValueError
                      ELSE FlattenEntries(Tail(entries), prefix, update(acc, sub[2]))

flatten_json(data, prefix) ==
    CASE IsDict(data) -> FlattenEntries(data[2], prefix, NoItems)
      [] IsList(data) -> ListLeaf(data[2], prefix)
      [] IsStr(data) -> StrLeaf(data[2], prefix)
      [] OTHER -> OtherLeaf(data, prefix)

(***************************************************************************)
(* main.py:146-159, json_event_to_line_protocol                            *)
(***************************************************************************)

\* What json_event_to_line_protocol returns: None, or the line, here by its
\* parts: <<"line", [measurement, tags, fields, timestamp, head]>>, head
\* being the text of the line up to its fields.  An exception of
\* flatten_json is not caught here and leaves the function as it is.
NoRecord == <<"None", <<>>>>

\* An encoder whose count field yields to a count of the payload.
CountFieldDefault(fields) == update(OneItem(<<"count">>, <<"1", "i">>), fields)

\* Line 152: fields["count"] = "1i", after the payload has been flattened.
CountField(fields) == update(fields, OneItem(<<"count">>, <<"1", "i">>))

\* Lines 157-158: the line up to its fields, the tag values as they come.
\* A text is a sequence of words and single characters: "node A" is
\* <<"node", " ", "A">>.
LineHead(et, source, network) ==
    <<"beacon_event", ",", "event_type", "=">> \o et
        \o <<",", "source", "=">> \o source
        \o <<",", "network", "=">> \o network
        \o <<",", "endpoint", "=", "/eth/v1/events", " ">>

\* How json_event_to_line_protocol ends for a data string, whatever its other
\* arguments: it returns None (line 150), flatten_json raises (line 151), or
\* it returns a line (line 156).
Returns(data) ==
    CASE data[1] = "invalid" -> "None"
      [] data[1] /= "invalid" /\ flatten_json(data, <<>>)[1] = "ValueError" -> "ValueError"
      [] OTHER -> "line"

json_event_to_line_protocol(et, data, source, network, now) ==
    IF Returns(data) = "None" THEN NoRecord
    ELSE LET flat == flatten_json(data, <<>>)
         IN  IF Returns(data) = "ValueError" THEN ValueError
             ELSE <<"line",
                    [measurement |-> "beacon_event",
                     tags |-> <<<<"event_type", et>>, <<"source", source>>,
                                <<"network", network>>, <<"endpoint", "/eth/v1/events">>>>,
                     fields |-> CountField(flat[2]),
                     timestamp |-> now,
                     head |-> LineHead(et, source, network)]>>

(***************************************************************************)
(* The payloads the encoder is checked on                                  *)
(***************************************************************************)

\* The sequences over S of at most n elements.
SeqsUpTo(S, n) == UNION {[1..m -> S] : m \in 0..n}

\* {"k": v}
Dict1(k, v) == <<"dict", << <<k, v>> >>>>

\* The keys of the payloads.
Keys ==
    { <<"slot">>, <<"data">>, <<"source">>, <<"root">>, <<"block">>,
      <<"source", "_", "root">> }

\* Every leaf: the strings over Chars, some numbers, the booleans and null.
StrLeaves == {<<"str", c>> : c \in SeqsUpTo(Chars, MaxStrLen)}
NumLeaves ==
    { <<"int", 0>>, <<"int", 12>>, <<"float", <<1, <<"5">>>>>>, <<"float", <<2, <<>>>>>> }
BoolLeaves == {<<"bool", TRUE>>, <<"bool", FALSE>>}
NullLeaf == <<"null", <<>>>>
Leaves == StrLeaves \cup NumLeaves \cup BoolLeaves \cup {NullLeaf}

\* Two leaves that differ, for the payloads with more than one leaf.
HexLeaf == <<"str", <<"0", "x", "1">>>>
ShortLeaves == {HexLeaf, <<"int", 1>>}

\* Arrays: empty, of a leaf, of an object, of an array.
Arrays ==
    { <<"list", <<>>>>, <<"list", <<HexLeaf>>>>,
      <<"list", <<Dict1(<<"slot">>, HexLeaf)>>>>,
      <<"list", << <<"list", <<HexLeaf>>>> >>>> }

\* Payloads of one leaf: under one key, or the whole document.
OneLeaf == {Dict1(<<"slot">>, v) : v \in Leaves} \cup ShortLeaves \cup Arrays

\* Payloads of one leaf or array at the end of a path of d keys.
RECURSIVE Chains(_)
Chains(d) ==
    IF d = 0 THEN ShortLeaves \cup Arrays
    ELSE {Dict1(k, v) : k \in Keys \ {<<"slot">>, <<"source", "_", "root">>}, v \in Chains(d - 1)}

Deep == UNION {Chains(d) : d \in 1..MaxDepth}

\* Payloads of several entries, each a leaf, an array or an object of one entry.
WideKeys == {<<"source">>, <<"source", "_", "root">>, <<"block">>}
WideValues ==
    LET flat == ShortLeaves \cup {<<"list", <<HexLeaf>>>>}
    IN  flat \cup {Dict1(k, v) : k \in {<<"root">>, <<"slot">>}, v \in flat}

Wide ==
    { <<"dict", e>> : e \in
        { e \in SeqsUpTo(WideKeys \X WideValues, MaxWidth) :
            \A i, j \in 1..Len(e) : e[i][1] = e[j][1] => i = j } }

\* Payloads with a count of their own.
Counted ==
    LET own == ShortLeaves \cup {<<"list", <<HexLeaf>>>>, Dict1(<<"slot">>, HexLeaf)}
    IN  {Dict1(<<"count">>, v) : v \in own}
            \cup { <<"dict", << <<<<"count">>, HexLeaf>>, <<<<"slot">>, <<"int", 1>>>> >>>>,
                   <<"dict", << <<<<"slot">>, <<"int", 1>>>>, <<<<"count">>, HexLeaf>> >>>> }

\* The network of the first source (sse_configs.json).
Network == "mainnet"

\* The names cfg.get("source") can give a source, as texts: nodeA, and a
\* name with a space, a comma and an equals sign, "lab 1,rack=2".
SourceNames == {<<"nodeA">>, <<"lab", " ", "1", ",", "rack", "=", "2">>}

\* What time.time_ns() can answer.
Clock == {1, 2}

Payloads == {NotJson} \cup OneLeaf \cup Deep \cup Wide \cup Counted

\* The payloads of the runs with several calls.
CallPayloads == {EmptyObject, Dict1(<<"slot">>, HexLeaf), Dict1(<<"source">>, <<"int", 1>>)}

\* A payload is at hand and the encoder has not been called on it.
InitEncoder ==
    /\ InitWith({}, [s \in Sources |-> [lines |-> 0, faults |-> 0, sink |-> {}]])
    /\ data_str \in Payloads
    /\ record = Pending
    /\ calls = <<>>
    /\ ProcessorIdle

\* The same, for the runs with several calls.
InitCalls ==
    /\ InitWith({}, [s \in Sources |-> [lines |-> 0, faults |-> 0, sink |-> {}]])
    /\ data_str \in CallPayloads
    /\ record = Pending
    /\ calls = <<>>
    /\ ProcessorIdle

\* line = json_event_to_line_protocol(event_type, data_str, source, network)
\* The call is logged with its arguments and what it returned.
Encode ==
    /\ record = Pending
    /\ data_str /= NoData
    /\ \E k \in Kinds, source \in SourceNames, now \in Clock :
          LET ret == json_event_to_line_protocol(<<k>>, data_str, source, <<Network>>, now)
          IN  /\ record' = ret
              /\ calls' = Append(calls, <<k, data_str, source, Network, ret>>)
    /\ UNCHANGED <<exited, budget, pc, stop_event, conn, event_type, line, linesRead,
                   failures, handlers, delivered, sse_errors, hb, hbTick, requests,
                   hb_threads, data_str, posted, context, result>>

\* The next event: post_event is called again (line 162), with another
\* payload or the same one.
NextCall ==
    /\ record /= Pending
    /\ Len(calls) < MaxCalls
    /\ data_str' \in CallPayloads
    /\ record' = Pending
    /\ UNCHANGED <<exited, budget, pc, stop_event, conn, event_type, line, linesRead,
                   failures, handlers, delivered, sse_errors, hb, hbTick, requests,
                   hb_threads, calls, posted, context, result>>

NextEncoder == Encode

NextCalls == Encode \/ NextCall

\* The encoder alone, applied once to each payload.
EncoderSpec == InitEncoder /\ [][NextEncoder]_vars

\* The encoder alone, called several times in a row.
CallsSpec == InitCalls /\ [][NextCalls]_vars

(***************************************************************************)
(* main.py:161-174, post_event                                             *)
(***************************************************************************)

\* The sink's log of source s after post_event for event n of kind k ended
\* with outcome o.  Only a 200 answer puts the record in the sink; every other
\* outcome is logged and dropped, and none of them is retried or raised.
post_event(s, k, n, o) ==
    IF o = "sent200" THEN Append(delivered[s], <<k, n>>) ELSE delivered[s]

\* How one post_event call ends, ret being how json_event_to_line_protocol
\* ended and answer what requests.post comes to if it is called.
\* Line 162 is outside the try: an exception of the encoder leaves
\* post_event ("raised").  Lines 163-165: no line, no request ("notJson").
\* Lines 166-174: the answer is logged, whatever it is.
Outcome(ret, answer) ==
    CASE ret = "ValueError" -> "raised"
      [] ret = "None" -> "notJson"
      [] OTHER -> answer

\* A post_event that posts once more after an answer other than 200.
AttemptsRetried(answer) == IF answer = "sent200" THEN 1 ELSE 2

\* Line 167: the requests.post calls one post_event call makes for a line.
\* There is no loop around it.
Attempts(answer) == 1

\* The call post_event is made for: event thread n, or the heartbeat tick.
EventCall(n) == <<"event", n>>
HeartbeatCall == <<"heartbeat", 0>>

\* A post_event that posts whatever the encoder returned.
PostsUnchecked(ret, answer) == Attempts(answer)

\* Lines 162-167: the POSTs of one post_event call.  Without a line the
\* call returns at line 165, before requests.post.
Posts(ret, answer) == IF ret = "line" THEN Attempts(answer) ELSE 0

\* The calls of source s after post_event call id: <<id, POSTs, outcome>>.
\* Of the heartbeat ticks the last one is kept.
Requested(s, id, ret, answer) ==
    {r \in requests[s] : r[1] /= id} \cup {<<id, Posts(ret, answer), Outcome(ret, answer)>>}

\* Line 181: json.dumps({"heartbeat_timestamp": time.time()}), parsed again
\* by json_event_to_line_protocol.
HeartbeatData == <<"dict", << <<<<"heartbeat", "_", "timestamp">>, <<"float", <<1, <<"5">>>>>>>> >>>>

\* Lines 192-193: source = cfg.get("source"), network = cfg.get("network"),
\* for the configuration cfg of s.  Each source is given a network of its own.
Config(s) == [source |-> s, network |-> IF s = "nodeA" THEN Network ELSE "holesky"]

\* Closures that look their tags up in variables all the threads share, where
\* the last configuration of the list has been left.
BoundShared(s) == Config("nodeB")

\* Lines 199-201 and 209: args=(source, network) of the heartbeat thread and
\* the source, network of the on_event lambda are the locals of this call of
\* make_sse_loop, one call per configuration (lines 225-228).
Bound(s) == Config(s)

\* The records in the sink after post_event call id of kind k, made by the
\* threads of s, ended with outcome o: <<source tag, network tag, kind, the
\* source whose thread posted it, the call>>.
Posted(s, k, id, o) ==
    IF o = "sent200"
    THEN posted \cup {<<Bound(s).source, Bound(s).network, k, s, id>>}
    ELSE posted

(***************************************************************************)
(* main.py:176-184, heartbeat_loop                                         *)
(***************************************************************************)

\* What the stream thread of s is doing right now, as a heartbeat tick sees it.
Phase(s) ==
    IF pc[s] = "sleep" THEN "waiting" ELSE "running"

\* A heartbeat that is only due while the stream is connected.
HeartbeatDueConnected(s) == hb[s] = "post" /\ conn[s]

\* Lines 180-183: while True: the tick is due as soon as the sleep is over,
\* whatever the stream thread is doing.
HeartbeatDue(s) == hb[s] = "post"

\* A heartbeat thread that an uncaught transport error ends.
AfterTickUncaught(s, o) == IF o = "transportError" THEN "dead" ELSE "sleep"

\* Line 183: post_event has returned, whatever the sink answered, and the
\* thread sleeps HEARTBEAT_INTERVAL.
AfterTick(s, o) == "sleep"

\* post_event("heartbeat", ...): one tick, whatever the sink answers.
HeartbeatPost(s) ==
    /\ ~exited
    /\ HeartbeatDue(s)
    /\ \E answer \in budget[s].sink :
          LET ret == Returns(HeartbeatData)
          IN  /\ hb' = [hb EXCEPT ![s] = AfterTick(s, Outcome(ret, answer))]
              /\ requests' = [requests EXCEPT ![s] = Requested(s, HeartbeatCall, ret, answer)]
              /\ hbTick' = [hbTick EXCEPT ![s] = Phase(s)]
              /\ posted' = Posted(s, "heartbeat", HeartbeatCall, Outcome(ret, answer))
    /\ UNCHANGED <<exited, budget, pc, stop_event, conn, event_type, line, linesRead,
                   failures, handlers, delivered, sse_errors, hb_threads, data_str, record,
                   calls, context, result>>

\* time.sleep(HEARTBEAT_INTERVAL), then the next turn of while True.
HeartbeatSleep(s) ==
    /\ ~exited
    /\ hb[s] = "sleep"
    /\ hb' = [hb EXCEPT ![s] = "post"]
    /\ UNCHANGED <<exited, budget, pc, stop_event, conn, event_type, line, linesRead,
                   failures, handlers, delivered, sse_errors, hbTick, requests, hb_threads,
                   data_str, record, calls, posted, context, result>>

heartbeat_loop(s) == HeartbeatPost(s) \/ HeartbeatSleep(s)

(***************************************************************************)
(* main.py:186-222, make_sse_loop                                          *)
(***************************************************************************)

\* A supervisor that starts a heartbeat thread on every turn of its loop.
StartsHeartbeatEachTurn(s) == pc[s] \in {"start", "returned", "sleep5"}

\* Lines 198-204: hb_thread.start() stands before "while True:", so it runs
\* on the way in and on no turn of the loop.
StartsHeartbeat(s) == pc[s] = "start"

\* "start":    lines 192-211, start the heartbeat thread and build the client.
\* "call":     lines 213-216, while True: try: client.getSSEStream().
\* "returned": getSSEStream has returned; the next turn of while True.
\* "except":   lines 217-221, post_event("sse_error", ...).
\* "sleep5":   line 222, time.sleep(5), then the next turn of while True.
make_sse_loop(s) ==
    /\ ~exited
    /\ pc[s] \in {"start", "call", "returned", "except", "sleep5"}
    /\ pc' = [pc EXCEPT ![s] =
                 CASE pc[s] = "start" -> "call"
                   [] pc[s] = "call" -> "while"
                   [] pc[s] = "returned" -> "call"
                   [] pc[s] = "except" -> "sleep5"
                   [] pc[s] = "sleep5" -> "call"]
    /\ hb' = IF StartsHeartbeat(s) THEN [hb EXCEPT ![s] = "post"] ELSE hb
    /\ hb_threads' = IF StartsHeartbeat(s) THEN Bump(hb_threads, s) ELSE hb_threads
    /\ stop_event' = IF pc[s] = "start" THEN [stop_event EXCEPT ![s] = FALSE] ELSE stop_event
    /\ sse_errors' = IF pc[s] = "except" THEN Bump(sse_errors, s) ELSE sse_errors
    /\ UNCHANGED <<exited, budget, conn, event_type, line, linesRead, failures, handlers,
                   delivered, hbTick, requests, data_str, record, calls, posted, context,
                   result>>

(***************************************************************************)
(* sse_client.py:38-48, _run_event_function                                *)
(***************************************************************************)

\* threading.Thread(target=safe_call).start(): the event gets a thread of its
\* own and the caller goes on at once.  An event thread is named by the
\* number of the read that yielded its data line.
run_event_function(s, k, data) ==
    handlers' = [handlers EXCEPT ![s] = @ \cup {<<linesRead[s], k, data>>}]

\* Event threads that take their turns in the order they were started.
RunnableInOrder(s) == {h \in handlers[s] : \A g \in handlers[s] : h[1] <= g[1]}

\* Lines 46-48: every event has a thread of its own, started and never
\* joined or queued: any of them may be the next to run.
Runnable(s) == handlers[s]

\* safe_call in its thread: on_event = post_event(et, data, source, network).
\* An exception of the handler ("raised") is caught and logged by safe_call.
HandlerRun(s) ==
    /\ ~exited
    /\ \E h \in Runnable(s), answer \in budget[s].sink :
          LET ret == Returns(h[3])
          IN  /\ handlers' = [handlers EXCEPT ![s] = @ \ {h}]
              /\ delivered' = [delivered EXCEPT ![s] =
                                  post_event(s, h[2], h[1], Outcome(ret, answer))]
              /\ requests' = [requests EXCEPT ![s] = Requested(s, EventCall(h[1]), ret, answer)]
              /\ posted' = Posted(s, h[2], EventCall(h[1]), Outcome(ret, answer))
    /\ UNCHANGED <<exited, budget, pc, stop_event, conn, event_type, line, linesRead,
                   failures, sse_errors, hb, hbTick, hb_threads, data_str, record, calls,
                   context, result>>

(***************************************************************************)
(* sse_client.py:96-98, stop                                               *)
(***************************************************************************)

\* The SSEClient of s has been built (main.py:206-211).
HasClient(s) == pc[s] \notin {"absent", "unstarted", "start"}

\* self.stop_event.set(): the flag and nothing else.
stop(s) ==
    /\ ~exited
    /\ HasClient(s)
    /\ ~stop_event[s]
    /\ stop_event' = [stop_event EXCEPT ![s] = TRUE]
    /\ UNCHANGED <<exited, budget, pc, conn, event_type, line, linesRead, failures,
                   handlers, delivered, sse_errors, hb, hbTick, requests, hb_threads,
                   data_str, record, calls, posted, context, result>>

(***************************************************************************)
(* sse_client.py:50-94, getSSEStream                                       *)
(***************************************************************************)

\* A client that takes the next turn of its loop at once after a status
\* other than 200.
AfterBadStatusNoDelay(s) == "while"

\* Where getSSEStream goes after response.status_code != 200 (lines 62-65):
\* time.sleep(self.retry_delay); continue.
AfterBadStatus(s) == "sleep"

\* An except clause that raises again, to a caller that catches it.
AfterExceptionRaise(s) == "except"

\* An except clause that raises again and ends the thread.
AfterExceptionFatal(s) == "dead"

\* Where getSSEStream goes after an exception of requests.get or of the body
\* read (lines 86-92): both except clauses log and time.sleep(self.retry_delay);
\* neither raises again.
AfterException(s) == "sleep"

\* A read loop that joins its event threads before it reads on.
ReaderReadyJoined(s) == pc[s] = "iter" /\ handlers[s] = {}

\* A with block that leaves its response open.
ClosedNever(s) == conn

\* One response shared by every client, closed for all of them.
ClosedShared(s) == [t \in Sources |-> FALSE]

\* Line 61, with requests.get(...) as response: leaving the with block closes
\* the response of this client, and of no other.
Closed(s) == [conn EXCEPT ![s] = FALSE]

\* Whether the read loop is at "for line in response.iter_lines()" (line 70),
\* ready to take the next line.  Event threads are never joined.
ReaderReady(s) == pc[s] = "iter"

\* Line 58, while not self.stop_event.is_set(): leave (line 94, and back to
\* make_sse_loop) or start a request (line 61).
WhileCheck(s) ==
    /\ ~exited
    /\ pc[s] = "while"
    /\ IF stop_event[s]
       THEN pc' = [pc EXCEPT ![s] = "returned"]
       ELSE pc' = [pc EXCEPT ![s] = "connect"]
    /\ UNCHANGED <<exited, budget, stop_event, conn, event_type, line, linesRead, failures,
                   handlers, delivered, sse_errors, hb, hbTick, requests, hb_threads,
                   data_str, record, calls, posted, context, result>>

\* A client whose pending kind outlives the connection.
KindAtConnectKept(et) == et

\* Line 68: event_type = None, inside the with block of every request.
KindAtConnect(et) == None

\* Lines 61-68: the request answers 200 and the body is open.
ConnectOk(s) ==
    /\ ~exited
    /\ pc[s] = "connect"
    /\ conn' = [conn EXCEPT ![s] = TRUE]
    /\ event_type' = [event_type EXCEPT ![s] = KindAtConnect(event_type[s])]
    /\ pc' = [pc EXCEPT ![s] = "iter"]
    /\ UNCHANGED <<exited, budget, stop_event, line, linesRead, failures, handlers,
                   delivered, sse_errors, hb, hbTick, requests, hb_threads, data_str,
                   record, calls, posted, context, result>>

\* Lines 62-65: the request answers another status; the with block is left.
ConnectBadStatus(s) ==
    /\ ~exited
    /\ pc[s] = "connect"
    /\ FaultBudget(s)
    /\ failures' = Bump(failures, s)
    /\ pc' = [pc EXCEPT ![s] = AfterBadStatus(s)]
    /\ UNCHANGED <<exited, budget, stop_event, conn, event_type, line, linesRead, handlers,
                   delivered, sse_errors, hb, hbTick, requests, hb_threads, data_str,
                   record, calls, posted, context, result>>

\* Lines 86-92: requests.get raises (refused, unreachable, connect timeout).
ConnectException(s) ==
    /\ ~exited
    /\ pc[s] = "connect"
    /\ FaultBudget(s)
    /\ failures' = Bump(failures, s)
    /\ pc' = [pc EXCEPT ![s] = AfterException(s)]
    /\ UNCHANGED <<exited, budget, stop_event, conn, event_type, line, linesRead, handlers,
                   delivered, sse_errors, hb, hbTick, requests, hb_threads, data_str,
                   record, calls, posted, context, result>>

\* Line 70: iter_lines() yields the next line of the body.
ReadLine(s) ==
    /\ ~exited
    /\ ReaderReady(s)
    /\ LineBudget(s)
    /\ \E l \in Lines : line' = [line EXCEPT ![s] = l]
    /\ linesRead' = Bump(linesRead, s)
    /\ pc' = [pc EXCEPT ![s] = "check"]
    /\ UNCHANGED <<exited, budget, stop_event, conn, event_type, failures, handlers,
                   delivered, sse_errors, hb, hbTick, requests, hb_threads, data_str,
                   record, calls, posted, context, result>>

\* Line 70 raising: the body read fails or the 30 s read timeout passes; the
\* with block closes the response on the way to the except clause.
ReadError(s) ==
    /\ ~exited
    /\ ReaderReady(s)
    /\ FaultBudget(s)
    /\ failures' = Bump(failures, s)
    /\ conn' = Closed(s)
    /\ pc' = [pc EXCEPT ![s] = AfterException(s)]
    /\ UNCHANGED <<exited, budget, stop_event, event_type, line, linesRead, handlers,
                   delivered, sse_errors, hb, hbTick, requests, hb_threads, data_str,
                   record, calls, posted, context, result>>

\* Line 70 running out: the upstream ends the body; the for loop and the with
\* block end and the while loop takes its next turn, with no sleep.
BodyEnd(s) ==
    /\ ~exited
    /\ ReaderReady(s)
    /\ LineBudget(s)
    /\ linesRead' = Bump(linesRead, s)
    /\ conn' = Closed(s)
    /\ pc' = [pc EXCEPT ![s] = "while"]
    /\ UNCHANGED <<exited, budget, stop_event, event_type, line, failures, handlers,
                   delivered, sse_errors, hb, hbTick, requests, hb_threads, data_str,
                   record, calls, posted, context, result>>

\* Lines 71-73: if self.stop_event.is_set(): break, which leaves the with
\* block (the response is closed) for line 58.
CheckStop(s) ==
    /\ ~exited
    /\ pc[s] = "check"
    /\ IF stop_event[s]
       THEN /\ pc' = [pc EXCEPT ![s] = "while"]
            /\ conn' = Closed(s)
            /\ line' = [line EXCEPT ![s] = NoLine]
       ELSE /\ pc' = [pc EXCEPT ![s] = "parse"]
            /\ conn' = conn
            /\ line' = line
    /\ UNCHANGED <<exited, budget, stop_event, event_type, linesRead, failures, handlers,
                   delivered, sse_errors, hb, hbTick, requests, hb_threads, data_str,
                   record, calls, posted, context, result>>

\* A parser that dispatches every data line.
DispatchesAnyData(l, et) == l[1] = "data"

\* Line 80: elif line.startswith("data:") and event_type
Dispatches(l, et) == l[1] = "data" /\ Truthy(et)

\* A parser that keeps the kind once it has dispatched.
KindAfterKept(l, et) == IF l[1] = "event" THEN l[2] ELSE et

\* A parser for which a blank line ends the event at hand.
KindAfterBlankEnds(l, et) ==
    CASE l[1] = "event" -> l[2]
      [] l[1] = "blank" -> None
      [] l[1] \notin {"event", "blank"} /\ Dispatches(l, et) -> None
      [] OTHER -> et

\* Lines 75-84, event_type after the line l: an "event:" line sets it to its
\* kind (79), a dispatched "data:" line resets it (84), every other line
\* leaves it (a blank line at 75-76, any other by falling through).
KindAfter(l, et) ==
    CASE l[1] = "event" -> l[2]
      [] l[1] /= "event" /\ Dispatches(l, et) -> None
      [] OTHER -> et

\* Lines 75-84: one line through the framing parser.
ParseLine(s) ==
    /\ ~exited
    /\ pc[s] = "parse"
    /\ pc' = [pc EXCEPT ![s] = "iter"]
    /\ line' = [line EXCEPT ![s] = NoLine]
    /\ event_type' = [event_type EXCEPT ![s] = KindAfter(line[s], event_type[s])]
    /\ IF line[s][1] /= "event" /\ Dispatches(line[s], event_type[s])
       THEN run_event_function(s, event_type[s], line[s][2])
       ELSE UNCHANGED handlers
    /\ UNCHANGED <<exited, budget, stop_event, conn, linesRead, failures, delivered,
                   sse_errors, hb, hbTick, requests, hb_threads, data_str, record, calls,
                   posted, context, result>>

\* Lines 64, 89, 92: time.sleep(self.retry_delay) is over; back to line 58.
RetrySleep(s) ==
    /\ ~exited
    /\ pc[s] = "sleep"
    /\ pc' = [pc EXCEPT ![s] = "while"]
    /\ UNCHANGED <<exited, budget, stop_event, conn, event_type, line, linesRead, failures,
                   handlers, delivered, sse_errors, hb, hbTick, requests, hb_threads,
                   data_str, record, calls, posted, context, result>>

\* The steps the stream thread of s takes by itself.
getSSEStream(s) ==
    \/ WhileCheck(s)
    \/ CheckStop(s)
    \/ ParseLine(s)
    \/ RetrySleep(s)

\* The steps of getSSEStream that wait for the upstream.
Upstream(s) ==
    \/ ConnectOk(s)
    \/ ConnectBadStatus(s)
    \/ ConnectException(s)
    \/ ReadLine(s)
    \/ ReadError(s)
    \/ BodyEnd(s)

\* Every step that belongs to source s.
SourceStep(s) ==
    \/ StartThread(s)
    \/ make_sse_loop(s)
    \/ getSSEStream(s)
    \/ Upstream(s)
    \/ HandlerRun(s)
    \/ heartbeat_loop(s)
    \/ stop(s)

Next ==
    \/ KeyboardInterrupt
    \/ \E s \in Sources : SourceStep(s)

\* Python's threads all get to run: each thread of s that can take a step
\* by itself takes one.  What the upstream does, stop() and the interrupt are
\* not the program's to decide, except that a request ends: requests.get
\* answers or raises within its timeout.
Fairness ==
    \A s \in Sources :
        /\ WF_vars(make_sse_loop(s))
        /\ WF_vars(getSSEStream(s))
        /\ WF_vars(ConnectOk(s) \/ ConnectBadStatus(s) \/ ConnectException(s))
        /\ WF_vars(HandlerRun(s))
        /\ WF_vars(heartbeat_loop(s))

\* The program with one configured source and a sink that answers 200.
Spec == Init /\ [][Next]_vars

\* The program with one configured source and a sink that answers as it likes.
SinkSpec == InitSink /\ [][Next]_vars

\* The program with one configured source, its threads scheduled fairly.
FairSpec == InitFair /\ [][Next]_vars /\ Fairness

\* The program with two configured sources.
TwoSpec == InitTwo /\ [][Next]_vars

(***************************************************************************)
(* nifi-python/GetMetricsProcessor: GetMetricsProcessor.py, utilities.py   *)
(***************************************************************************)

\* utilities.py:2-5: the functions the module imports, which are the names
\* globals().get finds; and the names the property can hold, one of them a
\* name no function has.
Collectors == {"get_metrics_eth", "get_block_info", "get_node_info", "get_config_info"}
FunctionNames == Collectors \cup {"get_gas_info"}

\* The texts the two JSON properties can hold (both are required and not
\* empty): no JSON, the objects {} and {"network": "0x1"}, the array [] and
\* the number 1.
PropertyValues ==
    {NotJson, EmptyObject, Dict1(<<"network">>, HexLeaf), <<"list", <<>>>>, <<"int", 1>>}

\* What a collector does when it is called with the merged arguments: it
\* raises (a bad argument list, no node, a bad answer); it returns a str, the
\* line protocol text; or, get_metrics_eth without influx_format
\* (web3_client.py:91), it returns its dict, whose values json.dumps can
\* write ("json") or cannot ("object": web3.from_wei gives a Decimal for
\* every amount but 0).
Does(name) ==
    CASE name = "get_metrics_eth" -> {"raises", "str", "json", "object"}
      [] name \in Collectors \ {"get_metrics_eth"} -> {"raises", "str"}
      [] OTHER -> {"none"}

\* The runs of transform: the three properties and what the collector does.
Contexts ==
    {[function_name |-> n, function_params |-> a, sensitive_params |-> b, collector |-> d] :
        n \in FunctionNames, a \in PropertyValues, b \in PropertyValues,
        d \in {"raises", "str", "json", "object", "none"}}

\* How a call ends.
Raise(e) == <<"raise", e>>
Return(v) == <<"return", v>>
Raised(r) == r[1] = "raise"

\* GetMetricsProcessor.py:7-11: json.loads, its JSONDecodeError raised again
\* as a ValueError.  Any JSON document is returned, an object or not.
safe_load_json(property_value) ==
    IF property_value = NotJson THEN Raise("ValueError") ELSE Return(property_value)

\* utilities.py:7-18.  Line 9-12: a name globals() does not hold raises
\* ValueError.  Line 15: {**a, **b} raises TypeError unless both are
\* mappings.  Line 18: the collector is called and does what it does.
call_function(function_name, function_arguments, function_sensitive_arguments, does) ==
    IF function_name \notin Collectors
    THEN Raise("ValueError")
    ELSE IF ~IsDict(function_arguments) \/ ~IsDict(function_sensitive_arguments)
    THEN Raise("TypeError")
    ELSE IF does = "raises"
    THEN Raise("ValueError")
    ELSE Return(does)

\* GetMetricsProcessor.py:77-80: a str is taken as it is; anything else goes
\* through json.dumps, which raises TypeError on a value it cannot write.
Contents(value) ==
    CASE value = "str" -> Return("text")
      [] value = "json" -> Return("dumps")
      [] OTHER -> Raise("TypeError")

\* Lines 84-92 and 94-100: the two results transform can return.
Success(function_name, function_arguments, contents) ==
    [relationship |-> "success", contents |-> contents,
     attributes |-> [function_name |-> function_name,
                     function_arguments |-> function_arguments,
                     metrics_result |-> contents]]
Failure(e) ==
    [relationship |-> "failure", contents |-> "{}", attributes |-> [error |-> e]]

\* GetMetricsProcessor.py:66-100, transform(context, flowfile): everything
\* from line 70 on stands in the try, and except Exception (94) takes
\* whatever is raised there.  Line 73 calls function_arguments.keys(), an
\* AttributeError on a document that is no object.
transform(c) ==
    LET args == safe_load_json(c.function_params)
        sens == safe_load_json(c.sensitive_params)
    IN  IF Raised(args) THEN Failure(args[2])
        ELSE IF Raised(sens) THEN Failure(sens[2])
        ELSE IF ~IsDict(args[2]) THEN Failure("AttributeError")
        ELSE LET called == call_function(c.function_name, args[2], sens[2], c.collector)
             IN  IF Raised(called) THEN Failure(called[2])
                 ELSE LET contents == Contents(called[2])
                      IN  IF Raised(contents) THEN Failure(contents[2])
                          ELSE Success(c.function_name, args[2], contents[2])

\* The processor is about to be triggered with one of the contexts.
InitTransform ==
    /\ InitWith({}, [s \in Sources |-> [lines |-> 0, faults |-> 0, sink |-> {}]])
    /\ EncoderIdle
    /\ context \in {c \in Contexts : c.collector \in Does(c.function_name)}
    /\ result = NoResult

\* NiFi calls transform once for the flow file.
Transform ==
    /\ context /= NoContext
    /\ result = NoResult
    /\ result' = transform(context)
    /\ UNCHANGED <<exited, budget, pc, stop_event, conn, event_type, line, linesRead,
                   failures, handlers, delivered, sse_errors, hb, hbTick, requests,
                   hb_threads, data_str, record, calls, posted, context>>

NextTransform == Transform

\* GetMetricsProcessor alone, triggered once with each context.
TransformSpec == InitTransform /\ [][NextTransform]_vars

(***************************************************************************)
(* Claims                                                                  *)
(***************************************************************************)

\* The sources main.py started a thread for.
Started(s) == pc[s] \notin {"absent", "unstarted"}

\* C1: every failure of a source's stream (a status other than 200, a refused
\* request, a read error) hands exactly one sse_error event to post_event
\* before the next connection attempt: whenever a request is being made, as
\* many sse_error events have been emitted as the stream has failed.
C1_SseErrorPerFailure ==
    \A s \in Sources : pc[s] = "connect" => sse_errors[s] = failures[s]

\* C2: no failure ends a source's stream thread.  Whenever the thread of a
\* started source holds no open connection, whatever failed before, it makes
\* another connection attempt, unless stop was requested or the process left;
\* the number of failures before does not matter.
C2_SupervisorKeepsRetrying ==
    \A s \in Sources :
        (Started(s) /\ ~conn[s]) ~> (pc[s] = "connect" \/ stop_event[s] \/ exited)

\* C2, its case: the upstream has failed as often as it may in this run,
\* every line has been read and every event thread has ended, and the stream
\* thread is making one more request.
C2_Witness ==
    /\ failures["nodeA"] = MaxFaultsFair
    /\ linesRead["nodeA"] = MaxLinesFair
    /\ handlers["nodeA"] = {}
    /\ event_type["nodeA"] = None
    /\ pc["nodeA"] = "connect"
    /\ ~stop_event["nodeA"]

\* C3, first half: whatever the other sources are going through, a thread of
\* source t that can take a step by itself can take it: the stream thread, a
\* request in flight, a read the upstream answers, every event thread and
\* the heartbeat.
C3_OwnStepsEnabled ==
    \A t \in Sources :
        ~exited =>
            /\ pc[t] \in {"start", "call", "returned", "while", "check", "parse", "sleep"}
                  => ENABLED (make_sse_loop(t) \/ getSSEStream(t))
            /\ pc[t] = "connect" => ENABLED ConnectOk(t)
            /\ (pc[t] = "iter" /\ LineBudget(t)) => ENABLED ReadLine(t)
            /\ handlers[t] /= {} => ENABLED HandlerRun(t)
            /\ hb[t] /= "unstarted" => ENABLED heartbeat_loop(t)

\* C3, second half: no step changes what two sources own; a failure of one
\* source's stream leaves every other source's state as it was.
C3_OneSourcePerStep ==
    \A s, t \in Sources : s /= t => (View(s)' = View(s) \/ View(t)' = View(t))

\* C3: with two sources, the failures of one source's stream, a permanent
\* outage included, change nothing of what the other source's threads own,
\* and the other source's connection attempts, dispatches and heartbeat
\* ticks stay enabled.
C3_SourcesIndependent == []C3_OwnStepsEnabled /\ [][C3_OneSourcePerStep]_vars

\* C3, its case: one source is out for good (its upstream has failed as often
\* as it may and the stream thread waits to retry) while the other is
\* connected, has delivered an event and has ticked.
C3_Witness ==
    \E s, t \in Sources :
        /\ s /= t
        /\ failures[s] = MaxFaultsTwo /\ pc[s] = "sleep" /\ ~conn[s]
        /\ conn[t] /\ Len(delivered[t]) >= 1 /\ hbTick[t] /= "none"

\* C4: the heartbeat of a source never stops, whatever its stream is doing:
\* with the threads scheduled fairly a due tick is emitted and an emitted
\* tick is followed by the next one being due, for as long as the process
\* runs; so ticks are emitted again and again.
C4_HeartbeatKeepsTicking ==
    \A s \in Sources :
        /\ (hb[s] = "post") ~> (hb[s] = "sleep" \/ exited)
        /\ (hb[s] = "sleep") ~> (hb[s] = "post" \/ exited)

\* C4, its case: the last tick was emitted while the stream thread was
\* waiting to reconnect, after the upstream had failed as often as it may.
C4_Witness ==
    /\ hbTick["nodeA"] = "waiting"
    /\ hb["nodeA"] = "sleep"
    /\ pc["nodeA"] = "sleep"
    /\ failures["nodeA"] = MaxFaultsFair

\* C5, first half: while event threads of a source are still running, the
\* read loop takes the next line the upstream sends and parses it.
C5_ReaderNotHeld ==
    \A s \in Sources :
        (~exited /\ handlers[s] /= {}) =>
            /\ (pc[s] = "iter" /\ LineBudget(s)) => ENABLED ReadLine(s)
            /\ pc[s] = "parse" => ENABLED ParseLine(s)

\* C5, second half: an event thread that ends, by raising too, leaves the
\* read loop where it is and the connection as it is.
C5_HandlerEndKeepsStream ==
    \A s \in Sources :
        (handlers'[s] /= handlers[s] /\ handlers'[s] \subseteq handlers[s])
            => (pc'[s] = pc[s] /\ conn'[s] = conn[s])

\* C5: a handler that is slow, blocked or raising neither stalls nor ends the
\* consumption of the stream.
C5_HandlerNeverStallsReader == []C5_ReaderNotHeld /\ [][C5_HandlerEndKeepsStream]_vars

\* C5, its case: the event after one whose handler is still running has been
\* dispatched too, and the read loop is back at the open stream.
C5_Witness ==
    /\ Cardinality(handlers["nodeA"]) = 2
    /\ conn["nodeA"]
    /\ pc["nodeA"] = "iter"

\* getSSEStream of s has seen the stop flag and returned to make_sse_loop.
Stopped(s) == stop_event[s] /\ pc[s] = "returned"

\* C6: a stop request takes the supervisor of a source to a terminal state:
\* once the stream has seen the flag and returned, the connection is closed,
\* the stream thread takes no further step and the heartbeat emits no
\* further tick.
C6_StopIsTerminal ==
    [][\A s \in Sources :
          Stopped(s) => (~conn'[s] /\ pc'[s] = pc[s] /\ hb'[s] = hb[s])]_vars

\* C7: when the termination signal arrives, stop is requested on every
\* source and the process leaves only after all have settled: at exit every
\* client has its stop flag set, and no source is connected or running an
\* event thread.
C7_ExitAfterAllSettled ==
    exited =>
        \A s \in Sources :
            /\ HasClient(s) => stop_event[s]
            /\ ~conn[s]
            /\ handlers[s] = {}

\* C8: after a stop request no new event is dispatched: no event thread is
\* started while the stop flag is set.
C8_NoDispatchAfterStop ==
    [][\A s \in Sources : stop_event[s] => handlers'[s] \subseteq handlers[s]]_vars

\* C9: a stop request unblocks the blocking read by closing the underlying
\* connection: the step that sets the flag leaves the connection closed.
C9_StopClosesConnection ==
    [][\A s \in Sources : (~stop_event[s] /\ stop_event'[s]) => ~conn'[s]]_vars

C10_FailureSleepsInside ==
    \A s \in Sources : failures'[s] /= failures[s] => (pc'[s] = "sleep" /\ ~conn'[s])

\* C10, second half as amended: the caller never sees a failure: the thread
\* is never in make_sse_loop's except clause nor in its 5 s sleep, and no
\* sse_error is ever emitted.
C10_CallerNeverSeesFailure ==
    \A s \in Sources : pc[s] \notin {"except", "sleep5"} /\ sse_errors[s] = 0

EventCalls(s) == {r \in requests[s] : r[1][1] = "event"}

\* C11, the call site: a call that ended without a line made no request, and
\* its event is not in the sink.
C11_NoLineNoRequest ==
    \A s \in Sources : \A r \in requests[s] :
        r[3] = "notJson" =>
            /\ r[2] = 0
            /\ \A i \in 1..Len(delivered[s]) : EventCall(delivered[s][i][2]) /= r[1]

\* C11, the drop: the step in which the thread of an event whose payload is
\* not JSON ends records a call without a request that returned normally,
\* adds nothing to the sink and moves nothing of the stream thread; and a
\* dropped event stays dropped, no later step makes a request for it.
C11_DropStep ==
    \A s \in Sources :
        /\ \A h \in handlers[s] :
              (h[3] = NotJson /\ h \notin handlers'[s]) =>
                  /\ <<EventCall(h[1]), 0, "notJson">> \in requests'[s]
                  /\ delivered' = delivered
                  /\ pc' = pc /\ conn' = conn /\ event_type' = event_type
        /\ \A r \in EventCalls(s) : r[3] = "notJson" => r \in requests'[s]

\* C11: a payload that is not valid JSON is dropped where post_event calls
\* the encoder: the encoder returns no line, post_event makes no request to
\* the sink and returns normally, and the event is never tried again.
C11_BadJsonDropped ==
    /\ \A k \in Kinds, now \in Clock :
          json_event_to_line_protocol(<<k>>, NotJson, <<"nodeA">>, <<Network>>, now) = NoRecord
    /\ []C11_NoLineNoRequest
    /\ [][C11_DropStep]_vars

\* C11, its case: an event whose payload was not JSON has been dropped, its
\* thread has ended, and the stream is still connected.
C11_Witness ==
    /\ \E r \in EventCalls("nodeA") : r[3] = "notJson" /\ r[2] = 0
    /\ handlers["nodeA"] = {}
    /\ conn["nodeA"]
    /\ delivered["nodeA"] = <<>>

\* C12, the calls: no post_event call made more than one request, whatever
\* the sink answered, and a call for which the sink was asked made exactly
\* one; no failure of the sink left post_event as an exception.
C12_OneRequestPerCall ==
    \A s \in Sources :
        /\ \A r \in requests[s] :
              /\ r[2] <= 1
              /\ r[3] \in SinkAnswers => r[2] = 1
              /\ r[3] /= "raised"
        /\ hb[s] \in {"unstarted", "post", "sleep"}

\* C12, the sink: what the sink holds it holds once, and only a call that
\* was answered 200 put it there.
C12_NoDuplicate ==
    \A s \in Sources :
        /\ \A i, j \in 1..Len(delivered[s]) : delivered[s][i] = delivered[s][j] => i = j
        /\ \A i \in 1..Len(delivered[s]) :
              <<EventCall(delivered[s][i][2]), 1, "sent200">> \in requests[s]

\* C12, no retry: the call of an event thread is final.  No later step makes
\* another request for it, whether the sink answered 200, another status or
\* not at all.
C12_CallIsFinal ==
    \A s \in Sources : \A r \in EventCalls(s) : r \in requests'[s]

\* C12: a record handed to the sink is posted once at most: not again after
\* a status other than 200, not again after a transport failure, and the
\* failure stays inside post_event.
C12_AtMostOneRequest ==
    /\ [](C12_OneRequestPerCall /\ C12_NoDuplicate)
    /\ [][C12_CallIsFinal]_vars

\* C12, its case: the sink answered one event with a status other than 200
\* or not at all and the last heartbeat likewise; each was posted once, and
\* both threads have gone on (the event thread has ended, the heartbeat
\* sleeps).
C12_Witness ==
    /\ \E r \in EventCalls("nodeA") : r[3] = "transportError" /\ r[2] = 1
    /\ <<HeartbeatCall, 1, "sentNon200">> \in requests["nodeA"]
    /\ handlers["nodeA"] = {}
    /\ delivered["nodeA"] = <<>>
    /\ hb["nodeA"] = "sleep"

\* The last heartbeat tick of s was not delivered.
TickFailed(s) == \E r \in requests[s] : r[1] = HeartbeatCall /\ r[3] /= "sent200"

\* C13: a heartbeat tick the sink did not take does not stop the heartbeat
\* thread: the thread is alive after it, sleeps the interval, and the next
\* tick is due and emitted, for as long as the process runs.
C13_FailedTickKeepsTicking ==
    \A s \in Sources :
        /\ [](TickFailed(s) => hb[s] \in {"post", "sleep"})
        /\ (TickFailed(s) /\ hb[s] = "sleep") ~> (hb[s] = "post" \/ exited)
        /\ (TickFailed(s) /\ hb[s] = "post") ~> (hb[s] = "sleep" \/ exited)

\* C13, its case: the sink could not be reached at the last tick, the
\* interval is over and the next tick is due.
C13_Witness ==
    /\ <<HeartbeatCall, 1, "transportError">> \in requests["nodeA"]
    /\ hbTick["nodeA"] /= "none"
    /\ hb["nodeA"] = "post"
    /\ ~exited

\* The parser of s has a data line at hand and no event kind pending.
OrphanData(s) == pc[s] = "parse" /\ line[s][1] = "data" /\ event_type[s] \in {None, ""}

\* C14, the drop: parsing a data line with no kind pending starts no event
\* thread, leaves the pending kind as it is, keeps the connection open,
\* counts no failure and reports none, and the read loop goes on to the next
\* line.
C14_OrphanDropped ==
    \A s \in Sources :
        (OrphanData(s) /\ pc'[s] /= pc[s]) =>
            /\ handlers' = handlers
            /\ event_type' = event_type
            /\ conn'[s] /\ conn[s]
            /\ failures' = failures /\ sse_errors' = sse_errors
            /\ requests' = requests /\ delivered' = delivered
            /\ pc'[s] = "iter"

\* C14, afterwards: on an open connection a data line with a kind pending is
\* always dispatched, under that kind and with its payload, whatever was
\* dropped before on this connection.
C14_PairDispatched ==
    \A s \in Sources :
        (pc[s] = "parse" /\ line[s][1] = "data" /\ event_type[s] \in Kinds /\ pc'[s] /= pc[s]) =>
            /\ handlers'[s] = handlers[s] \cup {<<linesRead[s], event_type[s], line[s][2]>>}
            /\ conn'[s]

\* C14: a data line that arrives with no event kind pending is dropped
\* silently, and an event:/data: pair that follows on the same connection is
\* still emitted.
C14_OrphanDataDropped == [][C14_OrphanDropped /\ C14_PairDispatched]_vars

\* C14, its case: an event:/data: pair has just been dispatched on this
\* connection (its thread still runs), nothing has failed, and the next line
\* at hand is a data line with no kind pending; the upstream has more to
\* send.
C14_Witness ==
    /\ OrphanData("nodeA")
    /\ event_type["nodeA"] = None
    /\ linesRead["nodeA"] = 3
    /\ \E h \in handlers["nodeA"] : h[1] = 2
    /\ failures["nodeA"] = 0
    /\ conn["nodeA"]
    /\ ~stop_event["nodeA"]
    /\ LineBudget("nodeA")

(***************************************************************************)
(* Claims about the encoder                                                *)
(***************************************************************************)

\* The leaves of a document that are inside no array, each by its path: the
\* keys from the root down to it.
RECURSIVE LeafPaths(_, _)
LeafPaths(data, path) ==
    CASE IsDict(data) ->
             UNION {LeafPaths(data[2][i][2], Append(path, data[2][i][1])) : i \in 1..Len(data[2])}
      [] IsList(data) -> {}
      [] OTHER -> {path}

\* The value of a document at a path.
RECURSIVE ValueAt(_, _)
ValueAt(data, path) ==
    IF path = <<>> THEN data
    ELSE LET i == CHOOSE i \in 1..Len(data[2]) : data[2][i][1] = Head(path)
         IN  ValueAt(data[2][i][2], Tail(path))

\* The flattened path: the keys joined by "_".
RECURSIVE FlatName(_)
FlatName(path) ==
    IF path = <<>> THEN <<>>
    ELSE JoinKey(FlatName(SubSeq(path, 1, Len(path) - 1)), path[Len(path)])

\* A path is at or beneath a path of the ignore set.
UnderIgnored(path) ==
    \E n \in 1..Len(path) : FlatName(SubSeq(path, 1, n)) \in IGNORED_FIELDS

\* The leaves the encoder has to keep.
KeptLeaves(data) == {p \in LeafPaths(data, <<>>) : ~UnderIgnored(p)}

\* The four kinds of field, by how a field of the kind is written on the
\* line: a quoted string, an integer (decimal digits and "i"), a float
\* (decimal text), a boolean (true or false).
IsDecimal(text) == text /= <<>> /\ \A i \in 1..Len(text) : text[i] \in DecimalDigits
FieldKinds(text) ==
    {k \in {"string", "integer", "float", "boolean"} :
        CASE k = "string" -> Len(text) >= 2 /\ text[1] = "\"" /\ text[Len(text)] = "\""
          [] k = "integer" ->
                 Len(text) >= 2 /\ text[Len(text)] = "i" /\ IsDecimal(SubSeq(text, 1, Len(text) - 1))
          [] k = "float" -> FloatParses(text)
          [] k = "boolean" -> text \in {<<"true">>, <<"false">>}}

\* The encoder has been applied to a JSON document.
Encoded == record /= Pending /\ data_str /= NotJson

\* The fields of the record but count.
PayloadFields == {n \in DOMAIN record[2].fields : n /= <<"count">>}

\* C15: the encoder returns a line for every JSON document, and on it every
\* leaf that is in no array and at or beneath no ignored path is one field,
\* under its flattened path, of exactly one of the four kinds; as many
\* fields as there are such leaves.
C15_EveryLeafOneField ==
    Encoded =>
        /\ record[1] = "line"
        /\ \A p \in KeptLeaves(data_str) :
              /\ FlatName(p) \in PayloadFields
              /\ Cardinality(FieldKinds(record[2].fields[FlatName(p)])) = 1
        /\ Cardinality(PayloadFields) = Cardinality(KeptLeaves(data_str))

\* The payload is one string leaf under one key.
OneStringLeaf ==
    /\ IsDict(data_str) /\ Len(data_str[2]) = 1
    /\ data_str[2][1][1] = <<"slot">>
    /\ IsStr(data_str[2][1][2])

\* C16: a string leaf is encoded by the first rule that applies: it starts
\* with 0x, a quoted string; it is decimal digits only, an integer with the
\* suffix i ("101" gives 101i); float() accepts it, a float ("1.1" gives
\* 1.1); anything else, a quoted string.
C16_StringPriority ==
    (Encoded /\ OneStringLeaf) =>
        LET chars == data_str[2][1][2][2]
        IN  /\ record[1] = "line"
            /\ LET text == record[2].fields[<<"slot">>]
               IN  CASE StartsWith0x(chars) -> text = Quoted(chars)
                     [] ~StartsWith0x(chars) /\ IsDecimal(chars) ->
                            /\ FieldKinds(text) = {"integer"}
                            /\ chars = <<"1", "0", "1">> => text = <<"1", "0", "1", "i">>
                     [] ~StartsWith0x(chars) /\ ~IsDecimal(chars) /\ FloatParses(chars) ->
                            /\ FieldKinds(text) = {"float"}
                            /\ chars = <<"1", ".", "1">> => text = <<"1", ".", "1">>
                     [] OTHER -> text = Quoted(chars)

\* The payload is one leaf of type t under one key.
OneLeafOf(t) ==
    /\ IsDict(data_str) /\ Len(data_str[2]) = 1
    /\ data_str[2][1][1] = <<"slot">>
    /\ data_str[2][1][2][1] = t

\* C17: a JSON boolean leaf is a boolean field, written true or false.
C17_BooleanBare ==
    (Encoded /\ OneLeafOf("bool")) =>
        /\ record[1] = "line"
        /\ record[2].fields[<<"slot">>] =
               IF data_str[2][1][2][2] THEN <<"true">> ELSE <<"false">>

\* C18: a JSON number leaf keeps its subtype: an integer is an integer field
\* with the suffix i, a float is a float field in decimal text.
C18_NumberSubtype ==
    /\ (Encoded /\ OneLeafOf("int")) =>
          /\ record[1] = "line"
          /\ record[2].fields[<<"slot">>] = StrInt(data_str[2][1][2][2]) \o <<"i">>
    /\ (Encoded /\ OneLeafOf("float")) =>
          /\ record[1] = "line"
          /\ FieldKinds(record[2].fields[<<"slot">>]) = {"float"}
          /\ Dots(record[2].fields[<<"slot">>]) /= {}

\* A document without what lies at or beneath an ignored path.
RECURSIVE Pruned(_, _)
RECURSIVE PrunedEntries(_, _)
PrunedEntries(entries, path) ==
    IF entries = <<>> THEN <<>>
    ELSE LET p == Append(path, Head(entries)[1])
             rest == PrunedEntries(Tail(entries), path)
         IN  IF FlatName(p) \in IGNORED_FIELDS THEN rest
             ELSE << <<Head(entries)[1], Pruned(Head(entries)[2], p)>> >> \o rest

Pruned(data, path) ==
    IF IsDict(data) THEN <<"dict", PrunedEntries(data[2], path)>> ELSE data

\* The fields of the line the encoder returns for a document.
FieldsOf(data) == CountField(flatten_json(data, <<>>)[2])

\* C19: no field of the output has an ignored path as its name, every field
\* comes from a leaf that is at or beneath no ignored path, and the output
\* is what it would be without the ignored subtrees in the document.
C19_IgnoredAbsent ==
    (Encoded /\ record[1] = "line") =>
        /\ PayloadFields \cap IGNORED_FIELDS = {}
        /\ PayloadFields \subseteq {FlatName(p) : p \in KeptLeaves(data_str)}
        /\ record[2].fields = FieldsOf(Pruned(data_str, <<>>))

\* C19, its case: a document with a leaf beneath an ignored path, its own
\* flattened path not in the ignore set, next to a leaf that is kept.
C19_Witness ==
    /\ Encoded /\ record[1] = "line"
    /\ \E p \in LeafPaths(data_str, <<>>) : UnderIgnored(p) /\ FlatName(p) \notin IGNORED_FIELDS
    /\ PayloadFields /= {}

\* A document without its arrays; an array for a document is an empty one.
RECURSIVE WithoutArrays(_)
RECURSIVE EntriesWithoutArrays(_)
EntriesWithoutArrays(entries) ==
    IF entries = <<>> THEN <<>>
    ELSE IF IsList(Head(entries)[2]) THEN EntriesWithoutArrays(Tail(entries))
    ELSE << <<Head(entries)[1], WithoutArrays(Head(entries)[2])>> >>
             \o EntriesWithoutArrays(Tail(entries))

WithoutArrays(data) ==
    CASE IsDict(data) -> <<"dict", EntriesWithoutArrays(data[2])>>
      [] IsList(data) -> EmptyObject
      [] OTHER -> data

\* The arrays of a document that are in no array themselves, by their paths.
RECURSIVE ArrayPaths(_, _)
ArrayPaths(data, path) ==
    CASE IsDict(data) ->
             UNION {ArrayPaths(data[2][i][2], Append(path, data[2][i][1])) : i \in 1..Len(data[2])}
      [] IsList(data) -> {path}
      [] OTHER -> {}

\* C20: an array gives the output nothing: every field comes from a leaf
\* that is in no array, and the output is what it would be without the
\* arrays in the document, whatever they hold and however deep they lie.
C20_ArraysSkipped ==
    (Encoded /\ record[1] = "line") =>
        /\ PayloadFields \subseteq {FlatName(p) : p \in LeafPaths(data_str, <<>>)}
        /\ record[2].fields = FieldsOf(WithoutArrays(data_str))

\* C20, its case: a document with an array three keys beneath the top that
\* holds an object with a leaf.
C20_Witness ==
    /\ Encoded /\ record[1] = "line"
    /\ \E p \in ArrayPaths(data_str, <<>>) :
          /\ Len(p) = 3
          /\ ~UnderIgnored(p)
          /\ ValueAt(data_str, p) = <<"list", <<Dict1(<<"slot">>, HexLeaf)>>>>
    /\ PayloadFields = {}

\* The top-level keys of the document at hand.
TopKeys == IF IsDict(data_str) THEN {data_str[2][i][1] : i \in 1..Len(data_str[2])} ELSE {}

\* C21: every record the encoder produces has the field count with the
\* integer value 1, written 1i, whatever the payload holds: a count of the
\* payload's own does not replace it.
C21_CountAlwaysOne ==
    (Encoded /\ record[1] = "line") =>
        /\ <<"count">> \in DOMAIN record[2].fields
        /\ record[2].fields[<<"count">>] = <<"1", "i">>

\* C21, its case: the payload has a top-level count of its own that is not
\* the integer 1, beside another field, and the record has count=1i.
C21_Witness ==
    /\ Encoded /\ record[1] = "line"
    /\ <<"count">> \in TopKeys
    /\ ValueAt(data_str, <<<<"count">>>>) = HexLeaf
    /\ PayloadFields = {<<"slot">>}
    /\ record[2].fields[<<"count">>] = <<"1", "i">>

\* C22: the tag keys of every record are exactly event_type, source, network
\* and endpoint, and no field has the name of a tag: no payload produces a
\* field named event_type, source, network or endpoint.
C22_TagsFieldsDisjoint ==
    (Encoded /\ record[1] = "line") =>
        LET tags == record[2].tags
            keys == {tags[i][1] : i \in 1..Len(tags)}
            names == {IF t = "event_type" THEN <<"event", "_", "type">> ELSE <<t>> : t \in keys}
        IN  /\ Len(tags) = 4
            /\ keys = {"event_type", "source", "network", "endpoint"}
            /\ names \cap DOMAIN record[2].fields = {}

\* C23: on the line every space, comma and equals sign of a tag value has a
\* backslash before it: the only such characters of the line's head without
\* one are those the format puts there, the four commas and four equals
\* signs of the four tags and the space that ends the tags.
C23_TagValuesEscaped ==
    (Encoded /\ record[1] = "line") =>
        LET head == record[2].head
            Bare(c) == {i \in 1..Len(head) : head[i] = c /\ (i = 1 \/ head[i - 1] /= "\\")}
        IN  /\ Cardinality(Bare(",")) = 4
            /\ Cardinality(Bare("=")) = 4
            /\ Bare(" ") = {Len(head)}

\* Two calls of the encoder had the same arguments.
SameArguments(c, d) == c[1] = d[1] /\ c[2] = d[2] /\ c[3] = d[3] /\ c[4] = d[4]

Parses(s) == pc[s] = "parse" /\ pc'[s] /= pc[s]

\* C25, one line: an "event:" line makes its kind the pending one, whatever
\* was pending, and emits nothing; a "data:" line emits exactly when a kind
\* is pending, one event of that kind with its payload, and leaves none
\* pending; nothing else emits; and a new connection starts with none pending.
C25_ParserStep ==
    \A s \in Sources :
        /\ (Parses(s) /\ line[s][1] = "event") =>
              /\ event_type'[s] = line[s][2]
              /\ handlers' = handlers
        /\ (Parses(s) /\ line[s][1] = "data" /\ Truthy(event_type[s])) =>
              /\ handlers'[s] \ handlers[s] = {<<linesRead[s], event_type[s], line[s][2]>>}
              /\ handlers[s] \subseteq handlers'[s]
              /\ event_type'[s] = None
        /\ (Parses(s) /\ line[s][1] = "data" /\ ~Truthy(event_type[s])) =>
              /\ handlers' = handlers
              /\ event_type' = event_type
        /\ handlers'[s] \ handlers[s] /= {} =>
              Parses(s) /\ line[s][1] = "data" /\ Truthy(event_type[s])
        /\ (pc[s] = "connect" /\ pc'[s] = "iter") => event_type'[s] = None

\* C25, the events: every event emitted has a kind the upstream named, and
\* the line that emitted it was one the upstream sent.
C25_EmittedHaveKind ==
    \A s \in Sources : \A h \in handlers[s] : h[2] \in Kinds /\ h[1] \in 1..linesRead[s]

\* C25: the framing parser goes from idle to a pending kind on an "event:"
\* line and back to idle by emitting on the next "data:" line: an emitted
\* event has the kind of the latest "event:" line before its "data:" line,
\* an "event:" line is used for one event at most, a second "data:" line
\* emits nothing, and of two "event:" lines in a row the later one counts.
C25_FramingParser == []C25_EmittedHaveKind /\ [][C25_ParserStep]_vars

\* C25, its case: four lines on one connection, none failed: the second and
\* the fourth emitted an event, so the first and the third named the kinds;
\* the two events have the two kinds, and no kind is pending.
C25_Witness ==
    /\ handlers["nodeA"] = {<<2, "head", EmptyObject>>, <<4, "block", EmptyObject>>}
    /\ linesRead["nodeA"] = 4
    /\ failures["nodeA"] = 0
    /\ event_type["nodeA"] = None
    /\ pc["nodeA"] = "iter"
    /\ conn["nodeA"]

\* C26, one line: a blank line, and a line that starts with neither
\* "event:" nor "data:", emits nothing and leaves the pending kind, the
\* connection and everything else of the source as it was; the read loop
\* takes the next line.
C26_SkippedLine ==
    \A s \in Sources :
        (Parses(s) /\ line[s][1] \in {"blank", "other"}) =>
            /\ event_type' = event_type
            /\ handlers' = handlers
            /\ conn' = conn /\ failures' = failures /\ linesRead' = linesRead
            /\ requests' = requests /\ delivered' = delivered
            /\ pc'[s] = "iter"

\* C26, the pair: on its connection a kind that is pending stays pending
\* until an "event:" or a "data:" line is parsed, so the "data:" line after
\* a blank line meets it and is emitted under it.
C26_PendingKept ==
    \A s \in Sources :
        (Truthy(event_type[s]) /\ event_type'[s] /= event_type[s] /\ pc[s] /= "connect") =>
            /\ Parses(s)
            /\ line[s][1] \in {"event", "data"}
            /\ line[s][1] = "data" => <<linesRead[s], event_type[s], line[s][2]>> \in handlers'[s]

\* C26: blank lines and lines of neither kind dispatch nothing and leave
\* the parser as it was; a blank line between an "event:" line and its
\* "data:" line does not lose the kind.
C26_BlankLinesIgnored == [][C26_SkippedLine /\ C26_PendingKept]_vars

\* C26, its case: the kind head is pending from the first line, the second
\* line, at hand, is blank, and the upstream has more to send.
C26_Witness ==
    /\ pc["nodeA"] = "parse"
    /\ line["nodeA"][1] = "blank"
    /\ event_type["nodeA"] = "head"
    /\ linesRead["nodeA"] = 2
    /\ failures["nodeA"] = 0
    /\ conn["nodeA"]
    /\ ~stop_event["nodeA"]
    /\ handlers["nodeA"] = {}

\* C27, the starts: the thread of an event is started in the step that
\* parses its "data:" line, before the next line is read, so every thread
\* started earlier on the source, running or ended, belongs to an earlier line.
C27_StartedInArrivalOrder ==
    \A s \in Sources : \A h \in handlers'[s] \ handlers[s] :
        /\ h[1] = linesRead[s] /\ linesRead'[s] = linesRead[s]
        /\ \A g \in handlers[s] : g[1] < h[1]
        /\ \A r \in EventCalls(s) : r[1][2] < h[1]

\* C27, the ends: whichever event threads run, any one of them can be the
\* next to hand its record to the sink, the latest as well as the earliest.
C27_AnyCanEndNext ==
    \A s \in Sources : \A h \in handlers[s] :
        ~exited => ENABLED (HandlerRun(s) /\ h \notin handlers'[s])

\* C27: on one connection event threads are started in the order the events
\* arrive, and the order in which their records reach the sink is not
\* fixed by it.
C27_OrderNotGuaranteed == []C27_AnyCanEndNext /\ [][C27_StartedInArrivalOrder]_vars

\* C27, its case: on one connection the event of line 2 was dispatched
\* before the event of line 4, and the sink holds the record of line 4
\* before the record of line 2.
C27_Witness ==
    /\ delivered["nodeA"] = <<<<"block", 4>>, <<"head", 2>>>>
    /\ failures["nodeA"] = 0
    /\ linesRead["nodeA"] = 4
    /\ conn["nodeA"]

\* C28, the count: a source whose supervisor has passed its first lines has
\* exactly one heartbeat thread, and a source that has not has none; so
\* whenever a connection is attempted, open or waited for there is one.
C28_OneHeartbeatThread ==
    \A s \in Sources :
        /\ hb_threads[s] = IF pc[s] \in {"absent", "unstarted", "start"} THEN 0 ELSE 1
        /\ hb[s] = "unstarted" <=> hb_threads[s] = 0

\* C28, the start: a heartbeat thread is started only by the step on which
\* make_sse_loop goes from its first lines into its loop, before any
\* connection attempt; no failure, reconnection or turn of the loop starts one.
C28_StartedOnTheWayIn ==
    \A s \in Sources :
        hb_threads'[s] /= hb_threads[s] =>
            /\ pc[s] = "start" /\ pc'[s] = "call"
            /\ hb_threads[s] = 0 /\ hb_threads'[s] = 1
            /\ failures[s] = 0 /\ linesRead[s] = 0 /\ ~conn[s]

\* C28: a source has one heartbeat thread for its whole life: it is started
\* once, before the first connection attempt, and no reconnect cycle starts
\* another.
C28_OneEmitterPerSource == []C28_OneHeartbeatThread /\ [][C28_StartedOnTheWayIn]_vars

\* C28, its case: the stream has failed as often as the upstream may fail
\* and a body has ended as well, the thread is connecting once more, the
\* heartbeat has ticked, and the source has its one heartbeat thread.
C28_Witness ==
    /\ failures["nodeA"] = MaxFaults
    /\ linesRead["nodeA"] >= 1
    /\ pc["nodeA"] = "connect"
    /\ hbTick["nodeA"] /= "none"
    /\ hb_threads["nodeA"] = 1
    /\ ~stop_event["nodeA"]

\* C29, the steps: the step on which a connection fails puts the thread to
\* sleep, and nothing but a failure does; the sleep ends at the head of the
\* loop, not in another sleep; and a connection attempt starts from the head
\* of the loop only, so none starts while the thread sleeps.
C29_DelayThenAttempt ==
    \A s \in Sources :
        /\ failures'[s] /= failures[s] => (pc[s] /= "sleep" /\ pc'[s] = "sleep")
        /\ (pc'[s] = "sleep" /\ pc[s] /= "sleep") => failures'[s] = failures[s] + 1
        /\ (pc[s] = "sleep" /\ pc'[s] /= "sleep") => pc'[s] = "while"
        /\ (pc'[s] = "connect" /\ pc[s] /= "connect") => pc[s] = "while"

\* C29, the supervisor: the thread never sleeps in make_sse_loop, neither
\* after a sleep in getSSEStream nor instead of it.
C29_NoSecondDelay == \A s \in Sources : pc[s] /= "sleep5"

\* C29: after a failure of the connection there is one sleep of the fixed
\* delay before the next connection attempt: no attempt starts before it is
\* over, and no failure is followed by two sleeps, one in getSSEStream and
\* one in make_sse_loop.
C29_OneDelayPerFailure == []C29_NoSecondDelay /\ [][C29_DelayThenAttempt]_vars

\* C29, its case: the connection has failed twice before a line was read,
\* the heartbeat's last tick found the thread asleep, and the thread is
\* making its next attempt.
C29_Witness ==
    /\ failures["nodeA"] = 2
    /\ linesRead["nodeA"] = 0
    /\ hbTick["nodeA"] = "waiting"
    /\ pc["nodeA"] = "connect"
    /\ ~exited

\* C30: a JSON document whose flattening gives no field (an empty object, an
\* array for a document, an object with nothing but ignored keys and
\* arrays) is an encode error: the encoder returns no record for it, so
\* that the event is dropped.
C30_NoFieldsNoRecord ==
    (Encoded /\ KeptLeaves(data_str) = {}) => record[1] /= "line"

\* C31: a source sleeps the retry delay before it connects again whenever
\* its connection has ended, after a body the upstream ended as well as
\* after a failure: the step that closes the connection, no stop being
\* requested, puts the thread to sleep.
C31_DelayAfterBodyEnd ==
    [][\A s \in Sources :
          (conn[s] /\ ~conn'[s] /\ ~stop_event[s]) => pc'[s] = "sleep"]_vars

\* C32, the states: the response of a source is open only while its thread
\* is in the read loop of the request that opened it; wherever else the
\* thread stands, at the head of the loop, asleep, making a request or back
\* in make_sse_loop, the source has no open connection.
C32_OpenOnlyInReadLoop ==
    \A s \in Sources : conn[s] => pc[s] \in {"iter", "check", "parse"}

\* C32, the steps: a connection is opened only by a thread that holds none,
\* and every step that leaves the read loop closes the one it held.
C32_OpenedAfterClose ==
    \A s \in Sources :
        /\ (~conn[s] /\ conn'[s]) => (pc[s] = "connect" /\ pc'[s] = "iter")
        /\ (pc[s] = "connect" /\ pc'[s] = "iter") => (~conn[s] /\ conn'[s])
        /\ (pc[s] \in {"iter", "check", "parse"} /\ pc'[s] \notin {"iter", "check", "parse"}) =>
              (conn[s] /\ ~conn'[s])

\* C32: a source has at most one open connection at any moment: a new
\* connection attempt starts only after the connection before it was closed.
C32_OneConnectionPerSource == []C32_OpenOnlyInReadLoop /\ [][C32_OpenedAfterClose]_vars

\* C32, its case: the source has made more than one request: one failed,
\* the thread slept (the heartbeat saw it asleep), and the connection of a
\* later request is open, two reads into the run.
C32_Witness ==
    /\ conn["nodeA"]
    /\ pc["nodeA"] = "iter"
    /\ failures["nodeA"] = 1
    /\ linesRead["nodeA"] = 2
    /\ sse_errors["nodeA"] = 0
    /\ hbTick["nodeA"] = "waiting"

\* C33, the steps: the step that opens a connection leaves no kind pending,
\* whatever was pending when the connection before it ended; a kind becomes
\* pending only by an "event:" line parsed on the open connection; and an
\* event is emitted on the open connection under the kind pending there.
C33_KindOfThisConnection ==
    \A s \in Sources :
        /\ (~conn[s] /\ conn'[s]) => event_type'[s] = None
        /\ (Truthy(event_type'[s]) /\ event_type'[s] /= event_type[s]) =>
              (conn[s] /\ conn'[s] /\ Parses(s) /\ line[s] = <<"event", event_type'[s]>>)
        /\ \A h \in handlers'[s] \ handlers[s] :
              conn[s] /\ conn'[s] /\ h[2] = event_type[s] /\ Truthy(h[2])

\* C33, the first line: on a connection that has just been opened a "data:"
\* line is dropped: while no kind is pending the parser emits nothing.
C33_FirstDataDropped ==
    \A s \in Sources :
        (Parses(s) /\ event_type[s] = None /\ line[s][1] /= "event") =>
            (handlers' = handlers /\ event_type'[s] = None)

\* C33: the pending kind does not survive a reconnect: an "event:" line of
\* one connection is never paired with a "data:" line of a later one, and a
\* "data:" line that opens a connection is dropped.
C33_KindEndsWithConnection == [][C33_KindOfThisConnection /\ C33_FirstDataDropped]_vars

\* C33, its case: the first line named the kind head, the read then failed,
\* and the thread, after its sleep, is making the next request with the
\* kind of the connection before still in its local; the upstream has more
\* to send.
C33_Witness ==
    /\ pc["nodeA"] = "connect"
    /\ event_type["nodeA"] = "head"
    /\ linesRead["nodeA"] = 1
    /\ failures["nodeA"] = 1
    /\ ~conn["nodeA"]
    /\ ~stop_event["nodeA"]
    /\ ~exited

(***************************************************************************)
(* C34: the tags of the records in the sink                                *)
(***************************************************************************)

\* C34: every record delivered to the sink carries the source and the
\* network of the configuration whose threads posted it: with two sources
\* running at once, no event and no heartbeat of one source is tagged with
\* the source or the network of the other.  (No sse_error record is ever
\* posted: getSSEStream lets no exception out.)
C34_OwnTags ==
    /\ \A p \in posted :
          /\ p[1] = Config(p[4]).source
          /\ p[2] = Config(p[4]).network
          /\ \A t \in Sources \ {p[4]} :
                p[1] /= Config(t).source /\ p[2] /= Config(t).network
          /\ p[3] /= "sse_error"
    /\ \A s \in Sources : \A i \in 1..Len(delivered[s]) :
          \E p \in posted :
             p[4] = s /\ p[3] = delivered[s][i][1] /\ p[5] = EventCall(delivered[s][i][2])

\* Both sources have their heartbeat in the sink, nodeA an event as well,
\* and the upstream of nodeB has failed meanwhile.
C34_Witness ==
    /\ \E p \in posted : p[4] = "nodeA" /\ p[3] \in Kinds
    /\ \E p \in posted : p[4] = "nodeA" /\ p[3] = "heartbeat"
    /\ \E p \in posted : p[4] = "nodeB" /\ p[3] = "heartbeat"
    /\ failures["nodeB"] > 0

(***************************************************************************)
(* C35: the stop flag                                                      *)
(***************************************************************************)

\* C35: the stop flag of an SSEClient is sticky: once stop() has been called
\* the flag is never cleared, a call of getSSEStream that comes to line 58
\* with the flag set returns without opening a connection, and the client
\* opens no connection and starts no event thread while the flag is set.
C35_StopIsSticky ==
    [][\A s \in Sources :
          stop_event[s] =>
              /\ stop_event'[s]
              /\ (pc[s] = "while" /\ pc'[s] /= pc[s]) => pc'[s] = "returned"
              /\ ~(~conn[s] /\ conn'[s])
              /\ handlers'[s] \subseteq handlers[s]]_vars

(***************************************************************************)
(* C36: the kind of a dispatched event                                     *)
(***************************************************************************)

\* C36, the events: every event thread started, and every event the sink has
\* taken, has a kind that is neither missing nor empty.
C36_KindNotEmpty ==
    \A s \in Sources :
        /\ \A h \in handlers[s] : h[2] /= None /\ h[2] /= ""
        /\ \A i \in 1..Len(delivered[s]) :
              delivered[s][i][1] /= None /\ delivered[s][i][1] /= ""

\* C36, the parser: an "event:" line whose kind strips to nothing leaves no
\* kind pending, and a "data:" line read while the empty kind stands is
\* dropped: no event thread is started and the reader goes on to the next line.
C36_EmptyKindStep ==
    \A s \in Sources :
        /\ (Parses(s) /\ line[s] = <<"event", "">>) =>
              (event_type'[s] \in {None, ""} /\ handlers' = handlers)
        /\ (Parses(s) /\ line[s][1] = "data" /\ event_type[s] = "") =>
              (handlers' = handlers /\ pc'[s] = "iter" /\ conn'[s])

\* C36: every dispatched event has a non-empty kind; an "event:" line with
\* an empty or blank kind leaves the parser without a pending kind, so the
\* "data:" line after it is dropped and the handler is not called.
C36_NoEmptyKindDispatched == []C36_KindNotEmpty /\ [][C36_EmptyKindStep]_vars

\* Line 1 was an "event:" line with an empty kind and line 2, a "data:" line
\* of the same connection, is about to go through the parser.
C36_Witness ==
    /\ pc["nodeA"] = "parse"
    /\ line["nodeA"][1] = "data"
    /\ event_type["nodeA"] = ""
    /\ linesRead["nodeA"] = 2
    /\ failures["nodeA"] = 0
    /\ conn["nodeA"]
    /\ ~stop_event["nodeA"]
    /\ handlers["nodeA"] = {}

(***************************************************************************)
(* C37: GetMetricsProcessor.transform                                      *)
(***************************************************************************)

\* C37: transform turns every failure of its work into a result: when
\* either JSON property does not parse, the function name is unknown or the
\* called collector raises, the result is routed to failure with contents
\* "{}" and an error attribute, and otherwise the result is routed to
\* success; it is never both and never neither.
C37_FailuresAndOnlyFailures ==
    result /= NoResult =>
        LET failed ==
                \/ context.function_params = NotJson
                \/ context.sensitive_params = NotJson
                \/ context.function_name \notin Collectors
                \/ context.collector = "raises"
        IN  /\ result.relationship \in {"success", "failure"}
            /\ failed => /\ result.relationship = "failure"
                         /\ result.contents = "{}"
                         /\ DOMAIN result.attributes = {"error"}
            /\ ~failed => result.relationship = "success"

=============================================================================
